---------------------------- MODULE Spec2Model ----------------------------
(***************************************************************************)
(* Model of the Search component of vectara-docusaurus-search              *)
(* (src/components/search/SearchInput.tsx): the query controller            *)
(* (sendSearchQuery, its debounced variant, the sequence gate), the         *)
(* keyboard selection state machine (onKeyDown), the modal open/close       *)
(* handlers and the namespaced search history.                              *)
(*                                                                         *)
(* Strings are sequences of one-character strings: "a-b" is <<"a","-","b">>.*)
(* selectedResultIndex is 0-based as in the source; TLA+ sequences are      *)
(* 1-based, so searchResults[i] of the source is searchResults[i + 1] here. *)
(***************************************************************************)
EXTENDS Integers, Sequences, FiniteSets, TLC

VARIABLES
  props,                \* widget instance -> its Props (lines 88-104)
  store,                \* the history store: namespace -> list of entries
  searchResults,        \* useState<DeserializedSearchResult[]>([])   (116)
  selectedResultIndex,  \* useState<number | null>(null)              (136)
  isOpen,               \* useState<boolean>(false)                   (140)
  queryRef,             \* useRef<string>("")                         (143)
  searchCount,          \* useRef<number>(0)                          (144)
  inflight,             \* calls of fetchSearchResults not yet settled
  netCalls,             \* number of fetchSearchResults calls issued so far
  timers,               \* pending lodash.debounce timers, in deadline order
  timerLive,            \* the last of timers belongs to the current render's
                        \* debouncedSendSearchQuery
  opened,               \* the url last given to window.open, or NoUrl
  unhandledRejection,   \* a promise of sendSearchQuery rejected with no handler
  preReset,             \* history: the calls in flight that were issued before
                        \* resetResults last ran
  added,                \* history: namespace -> every entry ever added to it
                        \* (kept in SpecHistory only)
  last                  \* history: the handler that ran last and what it saw

vars == <<props, store, searchResults, selectedResultIndex, isOpen, queryRef,
          searchCount, inflight, netCalls, timers, timerLive, opened,
          unhandledRejection, preReset, added, last>>

widgetVars == <<searchResults, selectedResultIndex, isOpen, queryRef,
                searchCount, inflight, netCalls, timers, timerLive, opened,
                unhandledRejection, preReset, last>>

----------------------------------------------------------------------------
(* Bounds of the model *)

MaxSearches == 2      \* non-empty submits per run (caps searchCount)
MaxResults == 2       \* longest result list a response carries
MaxTimers == 2        \* pending debounce timers
MaxHistorySize == 2   \* largest historySize prop passed explicitly
MaxAdds == 3          \* addPreviousSearch calls per run in SpecHistory

----------------------------------------------------------------------------
(* Values *)

null == -1            \* the null of selectedResultIndex
Omitted == -1         \* a historySize prop that is not passed
DefaultHistorySize == 10
NoUrl == <<>>
Undefined == <<"undefined">>

EmptyString == <<>>
Queries == {EmptyString, <<"a">>, <<"b">>}

Widgets == {1, 2}
Main == 1             \* the instance whose controller the widget actions model

\* Identifiers for the two-instance history specification: some hold a "-".
Ids == {<<"a">>, <<"a", "-", "a">>}
ApiKeys == {<<"k">>}
HistorySizes == {Omitted} \cup (0 .. MaxHistorySize)
PropSet == [customerId : Ids, corpusId : Ids, apiKey : ApiKeys,
            historySize : HistorySizes]

----------------------------------------------------------------------------
(* Namespace of a widget's history: lines 126-129 *)

\* uuid-by-string derives a name-based UUID from its argument; it is taken
\* to be free of collisions, so it is a tagged copy of the argument.
getUuid(s) == <<"uuid">> \o s

\* `${customerId}-${corpusId}-${apiKey}`
searchIdString(p) == p.customerId \o <<"-">> \o p.corpusId \o <<"-">> \o p.apiKey

searchId(w) == getUuid(searchIdString(props[w]))

Namespaces == {getUuid(searchIdString(p)) : p \in PropSet}

\* historySize = 10 in the destructuring of the props
historySizeOf_plus1(w) ==
  IF props[w].historySize = Omitted THEN DefaultHistorySize
  ELSE props[w].historySize + 1

historySizeOf(w) ==
  IF props[w].historySize = Omitted THEN DefaultHistorySize
  ELSE props[w].historySize

----------------------------------------------------------------------------
(* useSearchHistory(searchId, historySize): a capped list per namespace.   *)
(* Each entry also carries the instance that added it (history only).       *)

LastN(s, n) == IF Len(s) <= n THEN s ELSE SubSeq(s, Len(s) - n + 1, Len(s))

CappedAppend(list, e, size) == LastN(Append(list, e), size)

addPreviousSearch(w, query) ==
  [store EXCEPT ![searchId(w)] =
     CappedAppend(@, [query |-> query, by |-> w], historySizeOf(w))]

getPreviousSearches(w) ==
  [i \in 1 .. Len(store[searchId(w)]) |-> store[searchId(w)][i].query]

----------------------------------------------------------------------------
(* useSearch: the search client *)

\* The result list a fulfilled fetchSearchResults(query) carries: n results,
\* each with its own url.
Results(query, n) == [i \in 1 .. n |-> [url |-> <<query, i>>]]

----------------------------------------------------------------------------
(* Pieces of the handlers *)

\* line 153
IsEmptyQuery_never(query) == FALSE

IsEmptyQuery(query) == Len(query) = 0

\* line 157: ++searchCount.current
NextSearchId_skip(count) == count + 2

NextSearchId(count) == count + 1

\* line 201
NoResults_never(results) == FALSE

NoResults(results) == Len(results) = 0

\* line 284: () => setIsOpen(true)
OpenAfterClick_toggle(open) == ~open

OpenAfterClick(open) == TRUE

\* line 163
Gate_never(id) == FALSE

Gate_open(id) == TRUE

Gate(id) == id = searchCount

\* line 161: await throws on a rejected promise, so lines 163-167 run only
\* when the promise is fulfilled.
ContinuationRuns_always(outcome) == TRUE

ContinuationRuns(outcome) == outcome = "fulfilled"

\* lines 165 and 226
SelectionAfterNewResults_kept(prev) == prev

SelectionAfterNewResults(prev) == null

\* lines 206-210
ArrowDownNext_nowrap(prevValue, length) ==
  IF prevValue = null THEN 0
  ELSE IF prevValue = length - 1 THEN length - 1 ELSE prevValue + 1

ArrowDownNext(prevValue, length) ==
  IF prevValue = null \/ prevValue = length - 1 THEN 0 ELSE prevValue + 1

\* lines 214-218
ArrowUpNext_fromtop(prevValue, length) ==
  IF prevValue = null THEN 0
  ELSE IF prevValue = 0 THEN length - 1 ELSE prevValue - 1

ArrowUpNext(prevValue, length) ==
  IF prevValue = null \/ prevValue = 0 THEN length - 1 ELSE prevValue - 1

\* line 195: searchResults[selectedResultIndex].url
UrlAt_first(results, index) ==
  IF 1 \in DOMAIN results THEN results[1].url ELSE Undefined

UrlAt(results, index) ==
  IF index + 1 \in DOMAIN results THEN results[index + 1].url ELSE Undefined

\* lines 152-174 and 197: sendSearchQuery has no try/catch, and neither the
\* debounced wrapper nor onKeyDown attaches a handler to the promise it returns.
RejectionHandled == FALSE

\* The input of the modal exists only while the modal is open.
InputMounted == isOpen

\* A state change re-renders the component, and the render builds a new
\* debounced function (line 171): a timer still pending belongs to the old one.
AfterRender(changed) == IF changed THEN FALSE ELSE timerLive

\* debouncedSendSearchQuery(query): restart the timer of this render's
\* debounced function, or start it.
Debounced(query) ==
  IF timerLive THEN [timers EXCEPT ![Len(timers)] = query]
  ELSE Append(timers, query)

\* window.open(url, "_self") replaces the document: no handler of the widget
\* runs once a url has been opened.
PageLoaded == opened = NoUrl

SawN(kind, sel, arg, n) == [kind |-> kind, sel |-> sel, arg |-> arg, n |-> n]

Saw(kind, sel, arg) == SawN(kind, sel, arg, 0)

----------------------------------------------------------------------------
(* sendSearchQuery up to its await: lines 152-161 *)

CanSend(query) ==
  IsEmptyQuery(query) \/ NextSearchId(searchCount) <= MaxSearches

sendSearchQuery(query) ==
  IF IsEmptyQuery(query)
  THEN UNCHANGED <<searchCount, store, inflight, netCalls>>
  ELSE /\ searchCount' = NextSearchId(searchCount)
       /\ store' = addPreviousSearch(Main, query)
       /\ inflight' = inflight \cup {[id |-> NextSearchId(searchCount),
                                      query |-> query]}
       /\ netCalls' = netCalls + 1

\* sendSearchQuery after its await: lines 161-167
Continuation(r, outcome, results) ==
  IF ContinuationRuns(outcome) /\ Gate(r.id)
  THEN /\ searchResults' = results
       /\ selectedResultIndex' = SelectionAfterNewResults(selectedResultIndex)
       /\ timerLive' = AfterRender(TRUE)
  ELSE UNCHANGED <<searchResults, selectedResultIndex, timerLive>>

----------------------------------------------------------------------------
(* The handlers *)

\* lines 176-185
onChange(currentQuery) ==
  /\ PageLoaded /\ InputMounted
  /\ timerLive \/ Len(timers) < MaxTimers
  /\ queryRef' = currentQuery
  /\ IF Len(currentQuery) = 0
     THEN /\ searchResults' = <<>>
          /\ selectedResultIndex' = SelectionAfterNewResults(selectedResultIndex)
          /\ preReset' = inflight
     ELSE UNCHANGED <<searchResults, selectedResultIndex, preReset>>
  /\ timers' = Debounced(currentQuery)
  /\ timerLive' = (Len(currentQuery) # 0)
  /\ last' = Saw("onChange", null, currentQuery)
  /\ UNCHANGED <<props, store, isOpen, searchCount, inflight, netCalls, opened,
                 unhandledRejection, added>>

\* lines 171-174: the oldest pending timer elapses
DebounceFire ==
  /\ PageLoaded
  /\ timers # <<>>
  /\ CanSend(Head(timers))
  /\ sendSearchQuery(Head(timers))
  /\ timers' = Tail(timers)
  /\ timerLive' = (timerLive /\ Len(timers) > 1)
  /\ last' = Saw("debounce", null, Head(timers))
  /\ UNCHANGED <<props, searchResults, selectedResultIndex, isOpen, queryRef,
                 opened, unhandledRejection, preReset, added>>

\* lines 187-222
onKeyDown(key) ==
  /\ PageLoaded /\ InputMounted
  /\ last' = Saw(key, selectedResultIndex, queryRef)
  /\ IF key = "Enter"
     THEN IF selectedResultIndex # null
          THEN /\ opened' = UrlAt(searchResults, selectedResultIndex)
               /\ UNCHANGED <<searchCount, store, inflight, netCalls>>
          ELSE /\ CanSend(queryRef)
               /\ sendSearchQuery(queryRef)
               /\ UNCHANGED opened
     ELSE UNCHANGED <<opened, searchCount, store, inflight, netCalls>>
  /\ selectedResultIndex' =
       IF NoResults(searchResults) THEN selectedResultIndex
       ELSE IF key = "ArrowDown"
            THEN ArrowDownNext(selectedResultIndex, Len(searchResults))
       ELSE IF key = "ArrowUp"
            THEN ArrowUpNext(selectedResultIndex, Len(searchResults))
       ELSE selectedResultIndex
  /\ timerLive' = AfterRender(selectedResultIndex' # selectedResultIndex)
  /\ UNCHANGED <<props, searchResults, isOpen, queryRef, timers,
                 unhandledRejection, preReset, added>>

\* line 161 onwards, the promise of fetchSearchResults fulfilled with n results
FetchResolve(r, n) ==
  /\ PageLoaded
  /\ r \in inflight
  /\ inflight' = inflight \ {r}
  /\ Continuation(r, "fulfilled", Results(r.query, n))
  /\ preReset' = preReset \ {r}
  /\ last' = SawN("resolve", selectedResultIndex, r.query, n)
  /\ UNCHANGED <<props, store, isOpen, queryRef, searchCount, netCalls, timers,
                 opened, unhandledRejection, added>>

\* line 161, the promise of fetchSearchResults rejected: the promise of
\* sendSearchQuery rejects in turn.
FetchReject(r) ==
  /\ PageLoaded
  /\ r \in inflight
  /\ inflight' = inflight \ {r}
  /\ Continuation(r, "rejected", <<>>)
  /\ unhandledRejection' = (unhandledRejection \/ ~RejectionHandled)
  /\ last' = Saw("reject", null, r.query)
  /\ preReset' = preReset \ {r}
  /\ UNCHANGED <<props, store, isOpen, queryRef, searchCount, netCalls, timers,
                 opened, added>>

\* line 284: onClick of the search button
onClickSearchButton ==
  /\ PageLoaded
  /\ isOpen' = OpenAfterClick(isOpen)
  /\ timerLive' = AfterRender(isOpen' # isOpen)
  /\ last' = Saw("click", null, EmptyString)
  /\ UNCHANGED <<props, store, searchResults, selectedResultIndex, queryRef,
                 searchCount, inflight, netCalls, timers, opened,
                 unhandledRejection, preReset, added>>

\* lines 267-279: keyup of Ctrl+K on the document
openSearchOnKeyStroke ==
  /\ PageLoaded
  /\ isOpen' = TRUE
  /\ timerLive' = AfterRender(~isOpen)
  /\ last' = Saw("ctrlK", null, EmptyString)
  /\ UNCHANGED <<props, store, searchResults, selectedResultIndex, queryRef,
                 searchCount, inflight, netCalls, timers, opened,
                 unhandledRejection, preReset, added>>

\* lines 224-233: onClose of the modal
closeModalAndResetResults ==
  /\ PageLoaded /\ isOpen
  /\ isOpen' = FALSE
  /\ searchResults' = <<>>
  /\ selectedResultIndex' = SelectionAfterNewResults(selectedResultIndex)
  /\ timerLive' = AfterRender(TRUE)
  /\ preReset' = inflight
  /\ last' = Saw("close", null, EmptyString)
  /\ UNCHANGED <<props, store, queryRef, searchCount, inflight, netCalls,
                 timers, opened, unhandledRejection, added>>

----------------------------------------------------------------------------
(* One widget instance and its controller *)

InitWidget ==
  /\ searchResults = <<>>
  /\ selectedResultIndex = null
  /\ isOpen = FALSE
  /\ queryRef = EmptyString
  /\ searchCount = 0
  /\ inflight = {}
  /\ netCalls = 0
  /\ timers = <<>>
  /\ timerLive = FALSE
  /\ opened = NoUrl
  /\ unhandledRejection = FALSE
  /\ preReset = {}
  /\ last = Saw("init", null, EmptyString)

InitStore ==
  /\ store = [ns \in Namespaces |-> <<>>]
  /\ added = [ns \in Namespaces |-> <<>>]

\* One instance on the page, given an explicit historySize.
Init ==
  /\ props = [w \in Widgets |->
                [customerId |-> <<"a">>, corpusId |-> <<"a">>,
                 apiKey |-> <<"k">>, historySize |-> MaxHistorySize]]
  /\ InitStore
  /\ InitWidget

Keys == {"Enter", "ArrowDown", "ArrowUp", "Escape"}

Next ==
  \/ \E q \in Queries : onChange(q)
  \/ DebounceFire
  \/ \E key \in Keys : onKeyDown(key)
  \/ \E r \in inflight : \E n \in 0 .. MaxResults : FetchResolve(r, n)
  \/ \E r \in inflight : FetchReject(r)
  \/ onClickSearchButton
  \/ openSearchOnKeyStroke
  \/ closeModalAndResetResults

Spec == Init /\ [][Next]_vars

----------------------------------------------------------------------------
(* Two instances on one page and the history store they share: the part of *)
(* sendSearchQuery that reaches the store (lines 157-159), for either       *)
(* instance, with the props of both drawn freely.                           *)

HistoryQueries == {<<"a">>, <<"b">>, <<"c">>}

TotalAdded == LET RECURSIVE Sum(_)
                  Sum(S) == IF S = {} THEN 0
                            ELSE LET ns == CHOOSE x \in S : TRUE
                                 IN Len(added[ns]) + Sum(S \ {ns})
              IN Sum(Namespaces)

recordSearch(w, query) ==
  /\ ~IsEmptyQuery(query)
  /\ TotalAdded < MaxAdds
  /\ store' = addPreviousSearch(w, query)
  /\ added' = [added EXCEPT ![searchId(w)] =
                 Append(@, [query |-> query, by |-> w])]
  /\ UNCHANGED <<props, widgetVars>>

InitHistory ==
  /\ props \in [Widgets -> PropSet]
  /\ InitStore
  /\ InitWidget

NextHistory == \E w \in Widgets : \E q \in HistoryQueries : recordSearch(w, q)

SpecHistory == InitHistory /\ [][NextHistory]_vars

----------------------------------------------------------------------------
(* Properties of the query controller *)

\* C1: sequence gating. When the response of a request resolves after a
\* newer query was submitted (its id is below the counter), the displayed
\* results and the selection are left as they were: a stale response is
\* never applied, whatever the order of arrival.
C1_SequenceGating ==
  [][\A r \in inflight :
       (r \notin inflight' /\ r.id < searchCount)
         => UNCHANGED <<searchResults, selectedResultIndex>>]_vars

\* The response of a query resolved last, and the results on display are
\* still those of another query: the response was dropped as stale.
C1_Witness ==
  /\ last.kind = "resolve"
  /\ searchResults # <<>>
  /\ searchResults[1].url[1] # last.arg

\* C2: a submit of the empty string, by the debounce timer or by Enter with
\* no selection, issues no network call and leaves the results, the
\* selection, the sequence counter and the history unchanged.
C2_EmptySubmitIsInert ==
  [][(\/ last'.kind = "debounce" /\ last'.arg = EmptyString
      \/ last'.kind = "Enter" /\ last'.sel = null /\ last'.arg = EmptyString)
       => UNCHANGED <<netCalls, inflight, searchResults, selectedResultIndex,
                      searchCount, store>>]_vars

\* A debounced submit of the empty string fired while results were on display.
C2_Witness ==
  /\ last.kind = "debounce"
  /\ last.arg = EmptyString
  /\ searchResults # <<>>

\* C3: selectedResultIndex is null or an index into the current searchResults.
C3_SelectedIndexValid ==
  \/ selectedResultIndex = null
  \/ /\ 0 <= selectedResultIndex
     /\ selectedResultIndex < Len(searchResults)

\* The last row of a list of several results is selected, after at least two
\* searches were submitted.
C3_Witness ==
  /\ Len(searchResults) > 1
  /\ selectedResultIndex = Len(searchResults) - 1
  /\ searchCount > 1

\* C4: when the search call is rejected, searchResults and
\* selectedResultIndex keep the values they had.
C4_RejectionKeepsState ==
  [][last'.kind = "reject"
       => UNCHANGED <<searchResults, selectedResultIndex>>]_vars

\* The request submitted last was rejected (none is in flight after it) while
\* a row of earlier results was selected.
C4_Witness ==
  /\ last.kind = "reject"
  /\ inflight = {}
  /\ selectedResultIndex # null

\* C5: no promise of the widget ends rejected without a handler.
C5_NoUnhandledRejection == unhandledRejection = FALSE

\* C8: ArrowDown with N > 0 results selects 0 from no selection, i + 1 from
\* i < N - 1, and 0 from N - 1; from index 0, N presses return to index 0.
ArrowDownTimes(start, length, times) ==
  LET RECURSIVE Press(_, _)
      Press(i, k) == IF k = 0 THEN i
                     ELSE Press(ArrowDownNext(i, length), k - 1)
  IN Press(start, times)

C8_ArrowDown ==
  (last.kind = "ArrowDown" /\ Len(searchResults) > 0) =>
    LET N == Len(searchResults)
        i == last.sel
    IN /\ i = null => selectedResultIndex = 0
       /\ (i # null /\ i < N - 1) => selectedResultIndex = i + 1
       /\ i = N - 1 => selectedResultIndex = 0
       /\ ArrowDownTimes(0, N, N) = 0

\* ArrowDown was pressed on the last of several rows and wrapped to the first.
C8_Witness ==
  /\ last.kind = "ArrowDown"
  /\ Len(searchResults) > 1
  /\ last.sel = Len(searchResults) - 1
  /\ selectedResultIndex = 0

\* C9: ArrowUp with N > 0 results selects N - 1 from no selection, i - 1 from
\* i > 0, and N - 1 from 0.
C9_ArrowUp ==
  (last.kind = "ArrowUp" /\ Len(searchResults) > 0) =>
    LET N == Len(searchResults)
        i == last.sel
    IN /\ i = null => selectedResultIndex = N - 1
       /\ i > 0 => selectedResultIndex = i - 1
       /\ i = 0 => selectedResultIndex = N - 1

\* ArrowUp was pressed with no selection on several rows and selected the last.
C9_Witness ==
  /\ last.kind = "ArrowUp"
  /\ Len(searchResults) > 1
  /\ last.sel = null
  /\ selectedResultIndex = Len(searchResults) - 1

\* C10: Enter with row i selected opens searchResults[i].url and issues no
\* search; Enter with no selection opens nothing and submits the stored raw
\* text in the same step, not through the debounce timer.
C10_Enter ==
  [][last'.kind = "Enter" =>
       IF selectedResultIndex # null
       THEN /\ opened' = searchResults[selectedResultIndex + 1].url
            /\ UNCHANGED <<netCalls, inflight, searchCount, store, timers>>
       ELSE /\ opened' = NoUrl
            /\ timers' = timers
            /\ queryRef # EmptyString =>
                 /\ netCalls' = netCalls + 1
                 /\ inflight' =
                      inflight \cup {[id |-> searchCount', query |-> queryRef]}]_vars

\* Enter was pressed on the second row and its url was opened.
C10_Witness ==
  /\ last.kind = "Enter"
  /\ last.sel = 1
  /\ opened = searchResults[2].url

----------------------------------------------------------------------------
(* Properties of the history store, under SpecHistory *)

Triple(w) == <<props[w].customerId, props[w].corpusId, props[w].apiKey>>

\* C6: two instances whose (customerId, corpusId, apiKey) differ never see a
\* history entry the other added.
C6_NamespaceIsolation ==
  \A w1 \in Widgets : \A w2 \in Widgets :
    Triple(w1) # Triple(w2) =>
      \A i \in DOMAIN store[searchId(w1)] : store[searchId(w1)][i].by # w2

\* C7: once more than historySize entries were added, the history holds
\* exactly historySize entries, the most recently added ones in insertion
\* order (for the instances of a namespace passing the same historySize).
SizePassed(w) ==
  IF props[w].historySize = Omitted THEN DefaultHistorySize
  ELSE props[w].historySize

----------------------------------------------------------------------------
(* Properties of the modal, the defaults and the debounce *)

\* C11: right after the modal is closed the results are empty, no row is
\* selected and the stored raw query text is empty.
C11_CloseResetsAll ==
  last.kind = "close" =>
    /\ searchResults = <<>>
    /\ selectedResultIndex = null
    /\ queryRef = EmptyString

\* C12: an instance whose historySize prop is omitted caches none of its
\* searches (under SpecHistory).
C12_DefaultHistorySizeZero ==
  \A w \in Widgets :
    props[w].historySize = Omitted =>
      \A i \in DOMAIN store[searchId(w)] : store[searchId(w)][i].by # w

\* C13: at any time at most one debounced submit of a (non-empty) text is
\* pending, so a burst of keystrokes dispatches one search.
C13_SingleDebounceTimer ==
  Cardinality({i \in DOMAIN timers : timers[i] # EmptyString}) <= 1

----------------------------------------------------------------------------
(* Properties of result application, submits and the modal button *)

\* C14: every step that applies a result set (a response passing the gate,
\* the input cleared, the modal closed, or any change of searchResults) sets
\* selectedResultIndex to null in that step.
C14_NewResultsResetSelection ==
  [][(\/ last'.kind = "close"
      \/ last'.kind = "onChange" /\ last'.arg = EmptyString
      \/ /\ last'.kind = "resolve"
         /\ \E r \in inflight : r \notin inflight' /\ r.id = searchCount
      \/ searchResults' # searchResults)
       => selectedResultIndex' = null]_vars

\* A response was applied while a row was selected, and the selection is gone.
C14_Witness ==
  /\ last.kind = "resolve"
  /\ last.sel # null
  /\ selectedResultIndex = null

\* C15: with an empty results list a key press leaves the selection null and
\* the list empty, whatever the key.
C15_KeysOnEmptyResults ==
  (last.kind \in Keys /\ searchResults = <<>>) =>
    /\ last.sel = null
    /\ selectedResultIndex = null

\* ArrowDown was pressed on an empty list after a search had been submitted.
C15_Witness ==
  /\ last.kind = "ArrowDown"
  /\ searchResults = <<>>
  /\ searchCount > 0

\* C16: a submit of a non-empty query raises the sequence counter by exactly
\* 1, records the query as the newest history entry and issues exactly one
\* search call carrying the new counter value; the counter never decreases,
\* and settling a call (applied, stale or rejected) leaves the history alone.
SubmittedNonEmpty(l) ==
  /\ l.arg # EmptyString
  /\ \/ l.kind = "debounce"
     \/ l.kind = "Enter" /\ l.sel = null

C17_ButtonToggles ==
  [][/\ last'.kind = "click" => isOpen' = ~isOpen
     /\ last'.kind = "ctrlK" => isOpen']_vars

\* C17, amended: a click on the search button and Ctrl+K both leave the modal
\* open, whether it was open or closed before.
C17_ButtonOpens == last.kind \in {"click", "ctrlK"} => isOpen

\* The button was clicked while the modal was open (a row is selected, which
\* only key presses in the open modal bring about) and the modal is open.
C17_Witness ==
  /\ last.kind = "click"
  /\ selectedResultIndex # null
  /\ isOpen

\* C18: the response of a call issued before resetResults last ran is never
\* applied after it: settling such a call leaves searchResults as they are.
C18_NoStaleResultsAfterReset ==
  [][\A r \in preReset : r \notin inflight' => searchResults' = searchResults]_vars

\* C19: when the newest call resolves with n results, those results are
\* applied and the selection is null, whatever happened to earlier calls.
C19_LatestIsApplied ==
  [][\A r \in inflight :
       (last'.kind = "resolve" /\ r \notin inflight' /\ r.id = searchCount)
         => /\ searchResults' = Results(r.query, last'.n)
            /\ selectedResultIndex' = null]_vars

\* The newest call resolved with results that are on display, after an
\* earlier call was rejected.
C19_Witness ==
  /\ last.kind = "resolve"
  /\ last.n > 0
  /\ searchResults = Results(last.arg, last.n)
  /\ unhandledRejection
  /\ searchCount > 1
  /\ inflight = {}

=============================================================================
